---- MODULE Spec2Model ----
(***************************************************************************)
(* A model of the French practice toolkit: the static catalog (data.py),   *)
(* the session counters and the two exercises (exercises.py).              *)
(*                                                                         *)
(* Conventions.  An Optional[T] value is a sequence of length at most one: *)
(* None is <<>> and a present value v is <<v>>.  A string that the code    *)
(* transforms (strip, lower) is a sequence of characters; a string that    *)
(* the code only stores, compares or returns is a TLA+ string.  A method   *)
(* is an operator from the object (a record of its fields) and the         *)
(* arguments to the set of its possible outcomes, each a record            *)
(*   [self   |-> the object afterwards,                                    *)
(*    ret    |-> the returned value (Optional),                            *)
(*    raised |-> the exception that left the method (Optional),            *)
(*    calls  |-> the methods it called on the way, in order].              *)
(* random.choice is the one source of nondeterminism.                      *)
(***************************************************************************)
EXTENDS Integers, Sequences, FiniteSets, TLC

VARIABLES
  subject,   \* which of the objects below this run exercises
  es,        \* a stand-alone ExerciseState
  outcomes,  \* the arguments of the register_attempt calls made on es
  flash,     \* a FlashcardExercise
  conj,      \* a ConjugationExercise
  prompt,    \* what the last next_prompt/cycle_prompt of conj returned
  run,       \* number of consecutive cycle_prompt calls on conj
  mark,      \* conj's pattern and index when that run of calls began
  op,        \* the operation performed last
  arg,       \* its argument (Optional)
  ret,       \* its return value (Optional)
  raised,    \* the exception it raised (Optional)
  calls,     \* the methods it called internally
  tally,     \* the check_answer calls made so far, and how many returned True
  ftab,      \* the FlashcardTab around flash: its StringVars
  ctab,      \* the ConjugationTab around conj: its StringVars
  registry,  \* an ExerciseRegistry
  heap,      \* the ExerciseState objects of the exercises the registry created
  instances, \* those exercises, their state field a position in heap
  target     \* the position in instances of the exercise operated on last

vars ==
  <<subject, es, outcomes, flash, conj, prompt, run, mark, op, arg, ret,
    raised, calls, tally, ftab, ctab, registry, heap, instances, target>>

\* Bounds of the model.
MaxCalls == 6
MaxAttempts == 4
MaxRun == 7
MaxInstanceAttempts == 1
MaxTabAttempts == 2

None == <<>>
Some(v) == <<v>>

\* How a function ends: with a value, or with an exception.
Return(v) == [ret |-> Some(v), raised |-> None]
ReturnNone == [ret |-> None, raised |-> None]
Raise(e) == [ret |-> None, raised |-> Some(e)]
\* How a method ends: the same, with the object and the calls it made.
Outcome(self, r, made) ==
  [self |-> self, ret |-> r.ret, raised |-> r.raised, calls |-> made]

(***************************************************************************)
(* data.py: the static catalog                                             *)
(***************************************************************************)
VOCABULARY ==
  << [french |-> "bonjour", english |-> <<"h", "e", "l", "l", "o">>,
      category |-> "greetings"],
     [french |-> "au revoir", english |-> <<"g", "o", "o", "d", "b", "y", "e">>,
      category |-> "greetings"],
     [french |-> "s'il vous plaît", english |-> <<"p", "l", "e", "a", "s", "e">>,
      category |-> "greetings"],
     [french |-> "merci", english |-> <<"t", "h", "a", "n", "k", " ", "y", "o", "u">>,
      category |-> "greetings"],
     [french |-> "pardon", english |-> <<"s", "o", "r", "r", "y">>,
      category |-> "greetings"],
     [french |-> "pain", english |-> <<"b", "r", "e", "a", "d">>,
      category |-> "food"],
     [french |-> "fromage", english |-> <<"c", "h", "e", "e", "s", "e">>,
      category |-> "food"],
     [french |-> "eau", english |-> <<"w", "a", "t", "e", "r">>,
      category |-> "food"],
     [french |-> "pomme", english |-> <<"a", "p", "p", "l", "e">>,
      category |-> "food"],
     [french |-> "vin", english |-> <<"w", "i", "n", "e">>,
      category |-> "food"],
     [french |-> "maison", english |-> <<"h", "o", "u", "s", "e">>,
      category |-> "home"],
     [french |-> "chaise", english |-> <<"c", "h", "a", "i", "r">>,
      category |-> "home"],
     [french |-> "porte", english |-> <<"d", "o", "o", "r">>,
      category |-> "home"],
     [french |-> "fenêtre", english |-> <<"w", "i", "n", "d", "o", "w">>,
      category |-> "home"],
     [french |-> "cuisine", english |-> <<"k", "i", "t", "c", "h", "e", "n">>,
      category |-> "home"],
     [french |-> "chat", english |-> <<"c", "a", "t">>,
      category |-> "animals"],
     [french |-> "chien", english |-> <<"d", "o", "g">>,
      category |-> "animals"],
     [french |-> "oiseau", english |-> <<"b", "i", "r", "d">>,
      category |-> "animals"],
     [french |-> "poisson", english |-> <<"f", "i", "s", "h">>,
      category |-> "animals"],
     [french |-> "cheval", english |-> <<"h", "o", "r", "s", "e">>,
      category |-> "animals"] >>

PRESENT_TENSE ==
  << [infinitive |-> "parler",
      je |-> <<"p", "a", "r", "l", "e">>, tu |-> <<"p", "a", "r", "l", "e", "s">>,
      il |-> <<"p", "a", "r", "l", "e">>, nous |-> <<"p", "a", "r", "l", "o", "n", "s">>,
      vous |-> <<"p", "a", "r", "l", "e", "z">>, ils |-> <<"p", "a", "r", "l", "e", "n", "t">>],
     [infinitive |-> "finir",
      je |-> <<"f", "i", "n", "i", "s">>, tu |-> <<"f", "i", "n", "i", "s">>,
      il |-> <<"f", "i", "n", "i", "t">>, nous |-> <<"f", "i", "n", "i", "s", "s", "o", "n", "s">>,
      vous |-> <<"f", "i", "n", "i", "s", "s", "e", "z">>, ils |-> <<"f", "i", "n", "i", "s", "s", "e", "n", "t">>],
     [infinitive |-> "avoir",
      je |-> <<"a", "i">>, tu |-> <<"a", "s">>,
      il |-> <<"a">>, nous |-> <<"a", "v", "o", "n", "s">>,
      vous |-> <<"a", "v", "e", "z">>, ils |-> <<"o", "n", "t">>],
     [infinitive |-> "être",
      je |-> <<"s", "u", "i", "s">>, tu |-> <<"e", "s">>,
      il |-> <<"e", "s", "t">>, nous |-> <<"s", "o", "m", "m", "e", "s">>,
      vous |-> <<"ê", "t", "e", "s">>, ils |-> <<"s", "o", "n", "t">>],
     [infinitive |-> "aller",
      je |-> <<"v", "a", "i", "s">>, tu |-> <<"v", "a", "s">>,
      il |-> <<"v", "a">>, nous |-> <<"a", "l", "l", "o", "n", "s">>,
      vous |-> <<"a", "l", "l", "e", "z">>, ils |-> <<"v", "o", "n", "t">>] >>


\* random.choice(seq): any element; IndexError on an empty sequence.
choice(seq) ==
  IF Len(seq) = 0 THEN {Raise("IndexError")}
  ELSE {Return(seq[i]) : i \in 1..Len(seq)}

\* The variant of random_vocabulary_item without the fallback on an empty
\* filter result.
random_vocabulary_item_no_fallback(category) ==
  IF category = None \/ category = Some("") \/ category = Some("all")
  THEN choice(VOCABULARY)
  ELSE choice(SelectSeq(VOCABULARY, LAMBDA item : item.category = category[1]))

\* The variant of random_vocabulary_item that ignores the filter.
random_vocabulary_item_unfiltered(category) == choice(VOCABULARY)

random_vocabulary_item(category) ==
  IF category = None \/ category = Some("") \/ category = Some("all")
  THEN choice(VOCABULARY)
  ELSE LET filtered ==
             SelectSeq(VOCABULARY, LAMBDA item : item.category = category[1])
       IN IF Len(filtered) = 0 THEN choice(VOCABULARY) ELSE choice(filtered)

random_conjugation_pattern == choice(PRESENT_TENSE)

\* ConjugationPattern.pronouns and ConjugationPattern.answers
pronouns(self) == <<"je", "tu", "il/elle", "nous", "vous", "ils/elles">>

\* The variant of answers with the two plural forms swapped.
answers_swapped(self) ==
  <<self.je, self.tu, self.il, self.vous, self.nous, self.ils>>

answers(self) == <<self.je, self.tu, self.il, self.nous, self.vous, self.ils>>

(***************************************************************************)
(* The built-in operations the exercises use                               *)
(***************************************************************************)
Whitespace == {" ", "\t", "\n", "\r"}

Uppercase ==
  <<"A", "B", "C", "D", "E", "F", "G", "H", "I", "J", "K", "L", "M", "N",
    "O", "P", "Q", "R", "S", "T", "U", "V", "W", "X", "Y", "Z", "Ê">>
Lowercase ==
  <<"a", "b", "c", "d", "e", "f", "g", "h", "i", "j", "k", "l", "m", "n",
    "o", "p", "q", "r", "s", "t", "u", "v", "w", "x", "y", "z", "ê">>

\* str.lower(), character by character
lower_char(c) ==
  IF \E i \in 1..Len(Uppercase) : Uppercase[i] = c
  THEN Lowercase[CHOOSE i \in 1..Len(Uppercase) : Uppercase[i] = c]
  ELSE c
lower(s) == [i \in 1..Len(s) |-> lower_char(s[i])]

\* str.strip(): drop the whitespace at both ends
\* (strip_left_only: the variant that is lstrip())
RECURSIVE lstrip(_)
lstrip(s) ==
  IF Len(s) > 0 /\ s[1] \in Whitespace THEN lstrip(Tail(s)) ELSE s
RECURSIVE rstrip(_)
rstrip(s) ==
  IF Len(s) > 0 /\ s[Len(s)] \in Whitespace
  THEN rstrip(SubSeq(s, 1, Len(s) - 1)) ELSE s
strip_left_only(s) == lstrip(s)
strip(s) == rstrip(lstrip(s))

\* seq.index(x): the first position of x, counted from 0; ValueError if absent
index(seq, x) ==
  IF \E i \in 1..Len(seq) : seq[i] = x
  THEN Return((CHOOSE i \in 1..Len(seq) :
                 seq[i] = x /\ \A j \in 1..(i - 1) : seq[j] # x) - 1)
  ELSE Raise("ValueError")

\* seq[i] with Python's indexing: from 0, negative from the end, else IndexError
getitem(seq, i) ==
  IF 0 <= i /\ i < Len(seq) THEN Return(seq[i + 1])
  ELSE IF -Len(seq) <= i /\ i < 0 THEN Return(seq[Len(seq) + i + 1])
  ELSE Raise("IndexError")

\* a / b on two small non-negative ints: the quotient, kept as the fraction
\* <<numerator, denominator>> in lowest terms; 0.0 is <<0, 1>>
RECURSIVE gcd(_, _)
gcd(a, b) == IF b = 0 THEN a ELSE gcd(b, a % b)
truediv(a, b) ==
  IF b = 0 THEN Raise("ZeroDivisionError")
  ELSE Return(<<a \div gcd(a, b), b \div gcd(a, b)>>)
FloatZero == <<0, 1>>

(***************************************************************************)
(* exercises.py: ExerciseState                                             *)
(***************************************************************************)
ExerciseState ==
  [total_attempts |-> 0, correct_attempts |-> 0, current_streak |-> 0]

\* The variant of register_attempt that forgets to reset the streak.
register_attempt_keeps_streak(self, correct) ==
  IF correct
  THEN [self EXCEPT !.total_attempts = @ + 1, !.correct_attempts = @ + 1,
                    !.current_streak = @ + 1]
  ELSE [self EXCEPT !.total_attempts = @ + 1]

register_attempt(self, correct) ==
  LET counted == [self EXCEPT !.total_attempts = @ + 1]
  IN IF correct
     THEN [counted EXCEPT !.correct_attempts = @ + 1, !.current_streak = @ + 1]
     ELSE [counted EXCEPT !.current_streak = 0]

\* The variant of accuracy that divides with // instead of /.
accuracy_floordiv(self) ==
  IF self.total_attempts = 0 THEN Return(FloatZero)
  ELSE Return(<<self.correct_attempts \div self.total_attempts, 1>>)

accuracy(self) ==
  IF self.total_attempts = 0 THEN Return(FloatZero)
  ELSE truediv(self.correct_attempts, self.total_attempts)

(***************************************************************************)
(* exercises.py: FlashcardExercise                                         *)
(***************************************************************************)
FlashcardExercise ==
  [category |-> None, state |-> ExerciseState, current_item |-> None]

\* self.category = category, as an assignment from outside the class; the
\* variant also forgets the displayed item.
FlashcardExercise_set_category_clearing(self, category) ==
  [self EXCEPT !.category = category, !.current_item = None]
FlashcardExercise_set_category(self, category) ==
  [self EXCEPT !.category = category]

FlashcardExercise_next_prompt(self) ==
  { IF o.raised # None
    THEN Outcome(self, o, <<>>)
    ELSE Outcome([self EXCEPT !.current_item = o.ret], o, <<>>)
    : o \in random_vocabulary_item(self.category) }

\* A method called from inside another one, with what it returned.
Call(name, r) == [name |-> name, ret |-> r]
Names(made) == [i \in 1..Len(made) |-> made[i].name]

\* The variant of check_answer that draws the next item after a correct answer.
FlashcardExercise_check_answer_advancing(self, answer) ==
  UNION { LET correct == lower(strip(answer)) = lower(o.self.current_item[1].english)
              judged == [o.self EXCEPT !.state = register_attempt(@, correct)]
              made == Append(o.calls, Call("register_attempt", None))
          IN IF correct
             THEN { Outcome(n.self, Return(correct),
                            Append(made, Call("next_prompt", n.ret)))
                    : n \in FlashcardExercise_next_prompt(judged) }
             ELSE { Outcome(judged, Return(correct), made) }
          : o \in IF self.current_item = None
                  THEN { [n EXCEPT !.calls = <<Call("next_prompt", n.ret)>>]
                         : n \in FlashcardExercise_next_prompt(self) }
                  ELSE {Outcome(self, ReturnNone, <<>>)} }

\* The variant of check_answer that does not draw an item when there is none.
FlashcardExercise_check_answer_no_draw(self, answer) ==
  IF self.current_item = None
  THEN {Outcome(self, Raise("AssertionError"), <<>>)}
  ELSE LET correct == lower(strip(answer)) = lower(self.current_item[1].english)
       IN {Outcome([self EXCEPT !.state = register_attempt(@, correct)],
                   Return(correct), <<Call("register_attempt", None)>>)}

FlashcardExercise_check_answer(self, answer) ==
  LET entered ==
        IF self.current_item = None
        THEN { [o EXCEPT !.calls = <<Call("next_prompt", o.ret)>>]
               : o \in FlashcardExercise_next_prompt(self) }
        ELSE {Outcome(self, ReturnNone, <<>>)}
  IN { IF o.raised # None THEN o
       ELSE IF o.self.current_item = None
       THEN Outcome(o.self, Raise("AssertionError"), o.calls)
       ELSE LET correct == lower(strip(answer)) = lower(o.self.current_item[1].english)
            IN Outcome([o.self EXCEPT !.state = register_attempt(@, correct)],
                       Return(correct),
                       Append(o.calls, Call("register_attempt", None)))
       : o \in entered }

(***************************************************************************)
(* exercises.py: ConjugationExercise                                       *)
(***************************************************************************)
ConjugationExercise ==
  [state |-> ExerciseState, current_pattern |-> None, current_index |-> 0]

\* (pattern.infinitive, pattern.pronouns[i]), or the IndexError of the subscript
prompt_pair(pattern, i) ==
  LET label == getitem(pronouns(pattern), i)
  IN IF label.raised # None THEN label
     ELSE Return(<<pattern.infinitive, label.ret[1]>>)

\* The variant of next_prompt that starts the counters again.
ConjugationExercise_next_prompt_resetting(self) ==
  { IF o.raised # None
    THEN Outcome(self, o, <<>>)
    ELSE Outcome([self EXCEPT !.current_pattern = o.ret, !.current_index = 0,
                              !.state = ExerciseState],
                 prompt_pair(o.ret[1], 0), <<>>)
    : o \in random_conjugation_pattern }

\* The variant of next_prompt that leaves the slot where it was.
ConjugationExercise_next_prompt_keeps_index(self) ==
  { IF o.raised # None
    THEN Outcome(self, o, <<>>)
    ELSE Outcome([self EXCEPT !.current_pattern = o.ret],
                 prompt_pair(o.ret[1], self.current_index), <<>>)
    : o \in random_conjugation_pattern }

ConjugationExercise_next_prompt(self) ==
  { IF o.raised # None
    THEN Outcome(self, o, <<>>)
    ELSE LET pattern == o.ret[1]
             drawn == [self EXCEPT !.current_pattern = Some(pattern)]
             je == index(pronouns(pattern), "je")
         IN IF je.raised # None
            THEN Outcome(drawn, je, <<>>)
            ELSE Outcome([drawn EXCEPT !.current_index = je.ret[1]],
                         prompt_pair(pattern, je.ret[1]), <<>>)
    : o \in random_conjugation_pattern }

\* The variant of cycle_prompt that moves on after drawing a first pattern.
ConjugationExercise_cycle_prompt_always_advances(self) ==
  UNION { LET moved == [o.self EXCEPT !.current_index =
                          (o.self.current_index + 1)
                            % Len(pronouns(o.self.current_pattern[1]))]
          IN {Outcome(moved,
                      prompt_pair(moved.current_pattern[1], moved.current_index),
                      o.calls)}
          : o \in IF self.current_pattern = None
                  THEN { [n EXCEPT !.calls = <<Call("next_prompt", n.ret)>>]
                         : n \in ConjugationExercise_next_prompt(self) }
                  ELSE {Outcome(self, ReturnNone, <<>>)} }

\* The variant of cycle_prompt that forgets the modulo.
ConjugationExercise_cycle_prompt_no_wrap(self) ==
  IF self.current_pattern = None
  THEN { [o EXCEPT !.calls = <<Call("next_prompt", o.ret)>>]
         : o \in ConjugationExercise_next_prompt(self) }
  ELSE LET moved == [self EXCEPT !.current_index = self.current_index + 1]
       IN {Outcome(moved,
                   prompt_pair(self.current_pattern[1], moved.current_index),
                   <<>>)}

ConjugationExercise_cycle_prompt(self) ==
  IF self.current_pattern = None
  THEN { [o EXCEPT !.calls = <<Call("next_prompt", o.ret)>>]
         : o \in ConjugationExercise_next_prompt(self) }
  ELSE LET moved ==
             [self EXCEPT !.current_index =
                 (self.current_index + 1) % Len(pronouns(self.current_pattern[1]))]
       IN {Outcome(moved,
                   prompt_pair(self.current_pattern[1], moved.current_index),
                   <<>>)}

ConjugationExercise_check_answer(self, answer) ==
  LET entered ==
        IF self.current_pattern = None
        THEN { [o EXCEPT !.calls = <<Call("next_prompt", o.ret)>>]
               : o \in ConjugationExercise_next_prompt(self) }
        ELSE {Outcome(self, ReturnNone, <<>>)}
  IN { IF o.raised # None THEN o
       ELSE IF o.self.current_pattern = None
       THEN Outcome(o.self, Raise("AssertionError"), o.calls)
       ELSE LET expected == getitem(answers(o.self.current_pattern[1]),
                                    o.self.current_index)
            IN IF expected.raised # None
               THEN Outcome(o.self, expected, o.calls)
               ELSE LET correct == lower(strip(answer)) = lower(expected.ret[1])
                    IN Outcome([o.self EXCEPT
                                  !.state = register_attempt(@, correct)],
                               Return(correct),
                               Append(o.calls, Call("register_attempt", None)))
       : o \in entered }

(***************************************************************************)
(* exercises.py: ExerciseRegistry                                          *)
(***************************************************************************)
\* A dict is the sequence of its items in insertion order.
ExerciseRegistry == [_creators |-> <<>>]

ExerciseRegistry_register(self, name, factory) ==
  IF \E i \in 1..Len(self._creators) : self._creators[i].key = name
  THEN [self EXCEPT !._creators =
          [i \in 1..Len(self._creators) |->
             IF self._creators[i].key = name
             THEN [key |-> name, value |-> factory] ELSE self._creators[i]]]
  ELSE [self EXCEPT !._creators =
          Append(self._creators, [key |-> name, value |-> factory])]

\* EXERCISES, with the two classes registered as factories
EXERCISES ==
  ExerciseRegistry_register(
    ExerciseRegistry_register(ExerciseRegistry, "Flashcards", "FlashcardExercise"),
    "Conjugation", "ConjugationExercise")

\* field(default_factory=ExerciseState): a construction makes an ExerciseState
\* of its own, a new object among those allocated so far; the variant is one
\* default object that every construction receives.
default_factory_shared(objects) ==
  [ref |-> 1, heap |-> IF Len(objects) = 0 THEN <<ExerciseState>> ELSE objects]
default_factory(objects) ==
  [ref |-> Len(objects) + 1, heap |-> Append(objects, ExerciseState)]

\* factory(): the generated __init__ of the dataclass, called with no argument.
\* The object's state field refers to an ExerciseState by its position.
construct(factory, objects) ==
  LET made == default_factory(objects)
  IN [object |->
        [class |-> factory,
         fields |-> IF factory = "FlashcardExercise"
                    THEN [FlashcardExercise EXCEPT !.state = made.ref]
                    ELSE [ConjugationExercise EXCEPT !.state = made.ref]],
      heap |-> made.heap]

\* The positions of name among the keys (at most one).
creator_of(self, name) ==
  {i \in 1..Len(self._creators) : self._creators[i].key = name}

\* create(name); the variant falls back to the first factory registered.
ExerciseRegistry_create_defaulting(self, name, objects) ==
  LET at == IF creator_of(self, name) = {} THEN {1} ELSE creator_of(self, name)
      factory == self._creators[CHOOSE i \in at : TRUE].value
      made == construct(factory, objects)
  IN [self |-> self, ret |-> Some(made.object), raised |-> None,
      calls |-> <<Call(factory, Some(made.object))>>, heap |-> made.heap]
ExerciseRegistry_create(self, name, objects) ==
  IF creator_of(self, name) = {}
  THEN [self |-> self, ret |-> None, raised |-> Some("KeyError"),
        calls |-> <<>>, heap |-> objects]
  ELSE LET factory == self._creators[CHOOSE i \in creator_of(self, name) : TRUE].value
           made == construct(factory, objects)
       IN [self |-> self, ret |-> Some(made.object), raised |-> None,
           calls |-> <<Call(factory, Some(made.object))>>, heap |-> made.heap]

\* names(): the keys, in insertion order
ExerciseRegistry_names(self) ==
  Return([i \in 1..Len(self._creators) |-> self._creators[i].key])

(***************************************************************************)
(* gui.py: the StringVars of the widgets.  A displayed text is the         *)
(* sequence of the parts it is formatted from; the empty text is <<>>.     *)
(***************************************************************************)
StatsBar ==
  [accuracy_var |-> <<"Accuracy: ", 0, "%">>, streak_var |-> <<"Streak: ", 0>>]

FlashcardTab ==
  [prompt_var |-> <<"Press Next to start">>, feedback_var |-> <<>>,
   answer_var |-> <<>>, category_var |-> "all", stats |-> StatsBar]

ConjugationTab ==
  [verb_var |-> <<"Press Next">>, pronoun_var |-> <<"je">>,
   feedback_var |-> <<>>, answer_var |-> <<>>, stats |-> StatsBar]

\* How a handler ends: the tab, its exercise, the exception that left the
\* handler (if any) and the calls it made on the exercise.
Handled(self, exercise, exception, made) ==
  [self |-> self, exercise |-> exercise, raised |-> exception, calls |-> made]

\* f"{value:.0%}" without the sign: 100 * value rounded to an integer, a tie
\* to the even one; value is a fraction <<numerator, denominator>>.
format_percent(value) ==
  LET q == (100 * value[1]) \div value[2]
      r == (100 * value[1]) % value[2]
  IN IF 2 * r < value[2] THEN q
     ELSE IF 2 * r > value[2] THEN q + 1
     ELSE IF q % 2 = 0 THEN q ELSE q + 1

StatsBar_update_state(self, value, streak) ==
  [self EXCEPT !.accuracy_var = <<"Accuracy: ", format_percent(value), "%">>,
               !.streak_var = <<"Streak: ", streak>>]

\* FlashcardTab._refresh_stats; the variant leaves the bar as it is.
FlashcardTab_refresh_stats_stale(self, exercise) == self
FlashcardTab_refresh_stats(self, exercise) ==
  [self EXCEPT !.stats =
     StatsBar_update_state(@, accuracy(exercise.state).ret[1],
                           exercise.state.current_streak)]

\* FlashcardTab._next
FlashcardTab_next(self, exercise) ==
  { IF o.raised # None
    THEN Handled(self, o.self, o.raised, <<Call("next_prompt", None)>>)
    ELSE Handled([self EXCEPT !.prompt_var = <<"Translate: ", o.ret[1].french>>,
                              !.answer_var = <<>>,
                              !.feedback_var = <<>>],
                 o.self, None, <<Call("next_prompt", o.ret)>>)
    : o \in FlashcardExercise_next_prompt(exercise) }

\* FlashcardTab._change_category; the variant does not draw again.
FlashcardTab_change_category_no_redraw(self, exercise, category) ==
  { Handled(self, FlashcardExercise_set_category(exercise, Some(category)),
            None, <<>>) }
FlashcardTab_change_category(self, exercise, category) ==
  FlashcardTab_next(self, FlashcardExercise_set_category(exercise, Some(category)))

\* The OptionMenu of _build: choosing an entry sets category_var to it and
\* then calls the command with it.
OptionMenu_choose(self, exercise, value) ==
  FlashcardTab_change_category([self EXCEPT !.category_var = value], exercise, value)

\* FlashcardTab._check_answer
FlashcardTab_check_answer(self, exercise) ==
  IF Len(self.answer_var) = 0
  THEN { Handled([self EXCEPT !.feedback_var = <<"Type your answer first.">>],
                 exercise, None, <<>>) }
  ELSE UNION {
    IF o.raised # None
    THEN { Handled(self, o.self, o.raised, <<Call("check_answer", None)>>) }
    ELSE IF o.ret = Some(TRUE)
    THEN { IF n.raised # None
           THEN [n EXCEPT !.calls = <<Call("check_answer", o.ret)>> \o @]
           ELSE Handled(FlashcardTab_refresh_stats(n.self, n.exercise),
                        n.exercise, None,
                        <<Call("check_answer", o.ret)>> \o n.calls)
           : n \in FlashcardTab_next(
                     [self EXCEPT !.feedback_var = <<"Correct! ", "U+1F389">>],
                     o.self) }
    ELSE IF o.self.current_item = None
    THEN { Handled(self, o.self, Some("AssertionError"),
                   <<Call("check_answer", o.ret)>>) }
    ELSE { Handled(FlashcardTab_refresh_stats(
                     [self EXCEPT !.feedback_var =
                        <<"Not quite. Answer: ", o.self.current_item[1].english>>],
                     o.self),
                   o.self, None, <<Call("check_answer", o.ret)>>) }
    : o \in FlashcardExercise_check_answer(exercise, self.answer_var) }

\* FlashcardTab._reveal_answer
FlashcardTab_reveal_answer(self, exercise) ==
  IF exercise.current_item # None
  THEN { Handled([self EXCEPT !.feedback_var =
                    <<"Answer: ", exercise.current_item[1].english>>],
                 exercise, None, <<>>) }
  ELSE { Handled(self, exercise, None, <<>>) }

\* ConjugationTab._refresh_stats
ConjugationTab_refresh_stats(self, exercise) ==
  [self EXCEPT !.stats =
     StatsBar_update_state(@, accuracy(exercise.state).ret[1],
                           exercise.state.current_streak)]

\* The body shared by ConjugationTab._next and ConjugationTab._cycle_pronoun:
\* the pair the exercise returned is unpacked and displayed.
ConjugationTab_show(self, name, outs) ==
  { IF o.raised # None
    THEN Handled(self, o.self, o.raised, <<Call(name, None)>>)
    ELSE Handled([self EXCEPT !.verb_var = <<"Verb: ", o.ret[1][1]>>,
                              !.pronoun_var = <<"Pronoun: ", o.ret[1][2]>>,
                              !.answer_var = <<>>,
                              !.feedback_var = <<>>],
                 o.self, None, <<Call(name, o.ret)>>)
    : o \in outs }

\* ConjugationTab._next
ConjugationTab_next(self, exercise) ==
  ConjugationTab_show(self, "next_prompt", ConjugationExercise_next_prompt(exercise))

\* ConjugationTab._cycle_pronoun
ConjugationTab_cycle_pronoun(self, exercise) ==
  ConjugationTab_show(self, "cycle_prompt", ConjugationExercise_cycle_prompt(exercise))

\* ConjugationTab._check
ConjugationTab_check(self, exercise) ==
  IF Len(self.answer_var) = 0
  THEN { Handled([self EXCEPT !.feedback_var = <<"Enter a conjugation first.">>],
                 exercise, None, <<>>) }
  ELSE { IF o.raised # None
         THEN Handled(self, o.self, o.raised, <<Call("check_answer", None)>>)
         ELSE IF o.ret = Some(TRUE)
         THEN Handled(ConjugationTab_refresh_stats(
                        [self EXCEPT !.feedback_var = <<"Great job! ", "U+2705">>],
                        o.self),
                      o.self, None, <<Call("check_answer", o.ret)>>)
         ELSE IF o.self.current_pattern = None
         THEN Handled(self, o.self, Some("AssertionError"),
                      <<Call("check_answer", o.ret)>>)
         ELSE LET expected == getitem(answers(o.self.current_pattern[1]),
                                      o.self.current_index)
              IN IF expected.raised # None
                 THEN Handled(self, o.self, expected.raised,
                              <<Call("check_answer", o.ret)>>)
                 ELSE Handled(ConjugationTab_refresh_stats(
                                [self EXCEPT !.feedback_var =
                                   <<"Try again. Answer: ", expected.ret[1]>>],
                                o.self),
                              o.self, None, <<Call("check_answer", o.ret)>>)
         : o \in ConjugationExercise_check_answer(exercise, self.answer_var) }

(***************************************************************************)
(* The inputs                                                              *)
(***************************************************************************)
\* categories(items): the category names, each once, in first-occurrence order
RECURSIVE categories(_)
categories(items) ==
  IF Len(items) = 0 THEN <<>>
  ELSE LET seen == categories(SubSeq(items, 1, Len(items) - 1))
           item == items[Len(items)]
       IN IF \E i \in 1..Len(seen) : seen[i] = item.category
          THEN seen ELSE Append(seen, item.category)

\* The filters tried: none, the empty string, the "all" sentinel, each
\* category of the catalog, and one that matches nothing.
CategoryInputs ==
  {None, Some(""), Some("all"), Some("nonexistent-category")}
    \cup {Some(categories(VOCABULARY)[i]) : i \in 1..Len(categories(VOCABULARY))}

\* The answers typed.
Submissions ==
  { <<"h", "e", "l", "l", "o">>,
    <<" ", " ", "H", "e", "l", "l", "o", " ", " ">>,
    <<"h", "e", "l", " ", "l", "o">>,
    <<"t", "h", "a", "n", "k", " ", "y", "o", "u">>,
    <<"p", "a", "r", "l", "e">>,
    <<"p", "a", "r", "l", "e", "s">>,
    <<"\t", "P", "a", "r", "l", "e", "\n">>,
    <<"Ê", "T", "E", "S">>,
    <<>>,
    <<" ">> }

\* The names registered and asked for, and the factories registered.
RegisterNames == {"Flashcards", "Listening"}
CreateNames == {"Flashcards", "Conjugation", "Listening", "Unknown"}
Factories == {"FlashcardExercise", "ConjugationExercise"}

\* The registry's exercises are operated on in pairs: a first and a second.
Pair == {1, 2}

\* What the category menu offers, and what is typed into the entry of a tab
\* (the empty text is the entry cleared).
cat_values == <<"all">> \o categories(VOCABULARY)
TypedAnswers ==
  { <<>>, <<" ">>, <<"h", "e", "l", "l", "o">>, <<"p", "a", "r", "l", "e">> }

\* What is typed into an exercise of the registry.
InstanceSubmissions == { <<"h", "e", "l", "l", "o">>, <<"p", "a", "r", "l", "e">> }

(***************************************************************************)
(* The state machine                                                       *)
(***************************************************************************)
Snapshot(exercise) ==
  [pattern |-> exercise.current_pattern, index |-> exercise.current_index]

\* What the last next_prompt called during an operation returned, if any.
RECURSIVE LastPrompt(_, _)
LastPrompt(made, before) ==
  IF Len(made) = 0 THEN before
  ELSE IF made[Len(made)].name = "next_prompt" THEN made[Len(made)].ret
  ELSE LastPrompt(SubSeq(made, 1, Len(made) - 1), before)

\* The three objects share no field, so a run exercises one of them.
Subjects == {"state", "flash", "conj"}

\* Everything as constructed.
Fresh ==
  /\ es = ExerciseState
  /\ outcomes = <<>>
  /\ flash = FlashcardExercise
  /\ conj = ConjugationExercise
  /\ prompt = None
  /\ run = 0
  /\ mark = Snapshot(ConjugationExercise)
  /\ op = "init"
  /\ arg = None
  /\ ret = None
  /\ raised = None
  /\ calls = <<>>
  /\ tally = [checks |-> 0, correct |-> 0]
  /\ ftab = FlashcardTab
  /\ ctab = ConjugationTab
  /\ registry = EXERCISES
  /\ heap = <<>>
  /\ instances = <<>>
  /\ target = 0

Init == subject \in Subjects /\ Fresh

stateVars == <<es, outcomes>>
flashVars == <<flash>>
conjVars == <<conj, prompt, run, mark>>
tabVars == <<ftab, ctab>>
registryVars == <<registry, heap, instances, target>>

\* The tally after one more check_answer call that ended as o.
Tallied(o) ==
  [checks |-> tally.checks + 1,
   correct |-> tally.correct + (IF o.ret = Some(TRUE) THEN 1 ELSE 0)]

\* es.register_attempt(correct)
RegisterAttempt ==
  /\ subject = "state"
  /\ Len(outcomes) < MaxCalls
  /\ \E correct \in BOOLEAN :
      /\ es' = register_attempt(es, correct)
      /\ outcomes' = Append(outcomes, correct)
      /\ op' = "register_attempt"
      /\ arg' = Some(correct)
      /\ ret' = None
      /\ raised' = None
      /\ calls' = <<>>
      /\ UNCHANGED <<subject, flashVars, conjVars, tally, tabVars, registryVars>>

\* es.accuracy
Accuracy ==
  /\ subject = "state"
  /\ op' = "accuracy"
  /\ arg' = None
  /\ ret' = accuracy(es).ret
  /\ raised' = accuracy(es).raised
  /\ calls' = <<>>
  /\ UNCHANGED <<subject, stateVars, flashVars, conjVars, tally, tabVars, registryVars>>

\* flash.category = c
FlashSetCategory ==
  /\ subject = "flash"
  /\ \E c \in CategoryInputs :
      /\ flash' = FlashcardExercise_set_category(flash, c)
      /\ op' = "set_category"
      /\ arg' = Some(c)
      /\ ret' = None
      /\ raised' = None
      /\ calls' = <<>>
      /\ UNCHANGED <<subject, stateVars, conjVars, tally, tabVars, registryVars>>

\* flash.next_prompt()
FlashNextPrompt ==
  /\ subject = "flash"
  /\ \E o \in FlashcardExercise_next_prompt(flash) :
      /\ flash' = o.self
      /\ op' = "next_prompt"
      /\ arg' = None
      /\ ret' = o.ret
      /\ raised' = o.raised
      /\ calls' = o.calls
      /\ UNCHANGED <<subject, stateVars, conjVars, tally, tabVars, registryVars>>

\* flash.check_answer(answer)
FlashCheckAnswer ==
  /\ subject = "flash"
  /\ flash.state.total_attempts < MaxAttempts
  /\ \E answer \in Submissions :
      \E o \in FlashcardExercise_check_answer(flash, answer) :
        /\ flash' = o.self
        /\ op' = "check_answer"
        /\ arg' = Some(answer)
        /\ ret' = o.ret
        /\ raised' = o.raised
        /\ calls' = o.calls
        /\ tally' = Tallied(o)
        /\ UNCHANGED <<subject, stateVars, conjVars, tabVars, registryVars>>

\* conj.next_prompt()
ConjNextPrompt ==
  /\ subject = "conj"
  /\ \E o \in ConjugationExercise_next_prompt(conj) :
      /\ conj' = o.self
      /\ prompt' = IF o.raised = None THEN o.ret ELSE prompt
      /\ run' = 0
      /\ mark' = Snapshot(o.self)
      /\ op' = "next_prompt"
      /\ arg' = None
      /\ ret' = o.ret
      /\ raised' = o.raised
      /\ calls' = o.calls
      /\ UNCHANGED <<subject, stateVars, flashVars, tally, tabVars, registryVars>>

\* conj.cycle_prompt()
ConjCyclePrompt ==
  /\ subject = "conj"
  /\ run < MaxRun
  /\ \E o \in ConjugationExercise_cycle_prompt(conj) :
      /\ conj' = o.self
      /\ prompt' = IF o.raised = None THEN o.ret ELSE prompt
      /\ run' = run + 1
      /\ mark' = mark
      /\ op' = "cycle_prompt"
      /\ arg' = None
      /\ ret' = o.ret
      /\ raised' = o.raised
      /\ calls' = o.calls
      /\ UNCHANGED <<subject, stateVars, flashVars, tally, tabVars, registryVars>>

\* conj.check_answer(answer)
ConjCheckAnswer ==
  /\ subject = "conj"
  /\ conj.state.total_attempts < MaxAttempts
  /\ \E answer \in Submissions :
      \E o \in ConjugationExercise_check_answer(conj, answer) :
        /\ conj' = o.self
        /\ prompt' = LastPrompt(o.calls, prompt)
        /\ run' = 0
        /\ mark' = Snapshot(o.self)
        /\ op' = "check_answer"
        /\ arg' = Some(answer)
        /\ ret' = o.ret
        /\ raised' = o.raised
        /\ calls' = o.calls
        /\ tally' = Tallied(o)
        /\ UNCHANGED <<subject, stateVars, flashVars, tabVars, registryVars>>

\* The exercise at position i, its state field dereferenced.
Deref(object, objects) == [object.fields EXCEPT !.state = objects[@]]
View(i) == Deref(instances[i], heap)
IsFlash(i) == instances[i].class = "FlashcardExercise"
IsConj(i) == instances[i].class = "ConjugationExercise"

\* The methods change self.state in place and never rebind it: the object at
\* position i keeps its reference, and the ExerciseState it refers to changes.
StoredHeap(i, self) == [heap EXCEPT ![instances[i].fields.state] = self.state]
StoredInstances(i, self) ==
  [instances EXCEPT ![i].fields = [self EXCEPT !.state = instances[i].fields.state]]

RECURSIVE AttemptsIn(_)
AttemptsIn(objects) ==
  IF Len(objects) = 0 THEN 0
  ELSE objects[Len(objects)].total_attempts
         + AttemptsIn(SubSeq(objects, 1, Len(objects) - 1))

\* registry.register(name, factory)
RegistryRegister ==
  /\ subject = "registry"
  /\ \E name \in RegisterNames, factory \in Factories :
      /\ registry' = ExerciseRegistry_register(registry, name, factory)
      /\ op' = "register"
      /\ arg' = Some(<<name, factory>>)
      /\ ret' = None
      /\ raised' = None
      /\ calls' = <<>>
      /\ target' = 0
      /\ UNCHANGED <<subject, stateVars, flashVars, conjVars, tally, tabVars,
                     heap, instances>>

\* registry.create(name), the exercise kept when one is returned
RegistryCreate ==
  /\ subject \in {"registry", "instances"}
  /\ Len(instances) < Cardinality(Pair)
  /\ \E name \in CreateNames :
      LET o == ExerciseRegistry_create(registry, name, heap)
      IN /\ registry' = o.self
         /\ heap' = o.heap
         /\ instances' = IF o.raised = None
                         THEN Append(instances, o.ret[1]) ELSE instances
         /\ op' = "create"
         /\ arg' = Some(name)
         /\ ret' = o.ret
         /\ raised' = o.raised
         /\ calls' = o.calls
         /\ target' = 0
         /\ UNCHANGED <<subject, stateVars, flashVars, conjVars, tally, tabVars>>

\* registry.names()
RegistryNames ==
  /\ subject = "registry"
  /\ op' = "names"
  /\ arg' = None
  /\ ret' = ExerciseRegistry_names(registry).ret
  /\ raised' = ExerciseRegistry_names(registry).raised
  /\ calls' = <<>>
  /\ target' = 0
  /\ UNCHANGED <<subject, stateVars, flashVars, conjVars, tally, tabVars,
                 registry, heap, instances>>

\* instances[i].next_prompt()
InstanceNextPrompt ==
  /\ subject = "instances"
  /\ \E i \in 1..Len(instances) :
      \E o \in (IF IsFlash(i) THEN FlashcardExercise_next_prompt(View(i))
                ELSE ConjugationExercise_next_prompt(View(i))) :
        /\ heap' = StoredHeap(i, o.self)
        /\ instances' = StoredInstances(i, o.self)
        /\ op' = "next_prompt"
        /\ arg' = None
        /\ ret' = o.ret
        /\ raised' = o.raised
        /\ calls' = o.calls
        /\ target' = i
        /\ UNCHANGED <<subject, stateVars, flashVars, conjVars, tally, tabVars,
                       registry>>

\* instances[i].cycle_prompt()
InstanceCyclePrompt ==
  /\ subject = "instances"
  /\ \E i \in 1..Len(instances) :
      /\ IsConj(i)
      /\ \E o \in ConjugationExercise_cycle_prompt(View(i)) :
          /\ heap' = StoredHeap(i, o.self)
          /\ instances' = StoredInstances(i, o.self)
          /\ op' = "cycle_prompt"
          /\ arg' = None
          /\ ret' = o.ret
          /\ raised' = o.raised
          /\ calls' = o.calls
          /\ target' = i
          /\ UNCHANGED <<subject, stateVars, flashVars, conjVars, tally, tabVars,
                         registry>>

\* instances[i].check_answer(answer)
InstanceCheckAnswer ==
  /\ subject = "instances"
  /\ AttemptsIn(heap) < MaxInstanceAttempts
  /\ \E i \in 1..Len(instances), answer \in InstanceSubmissions :
      \E o \in (IF IsFlash(i) THEN FlashcardExercise_check_answer(View(i), answer)
                ELSE ConjugationExercise_check_answer(View(i), answer)) :
        /\ heap' = StoredHeap(i, o.self)
        /\ instances' = StoredInstances(i, o.self)
        /\ op' = "check_answer"
        /\ arg' = Some(answer)
        /\ ret' = o.ret
        /\ raised' = o.raised
        /\ calls' = o.calls
        /\ target' = i
        /\ UNCHANGED <<subject, stateVars, flashVars, conjVars, tally, tabVars,
                       registry>>

\* The user edits the entry of the flashcard tab.
FlashTabType ==
  /\ subject = "flash_tab"
  /\ \E text \in TypedAnswers :
      /\ ftab' = [ftab EXCEPT !.answer_var = text]
      /\ op' = "type"
      /\ arg' = Some(text)
      /\ ret' = None
      /\ raised' = None
      /\ calls' = <<>>
      /\ UNCHANGED <<subject, stateVars, flashVars, conjVars, tally, ctab,
                     registryVars>>

\* The user chooses an entry of the category menu.
FlashTabChooseCategory ==
  /\ subject = "flash_tab"
  /\ \E k \in 1..Len(cat_values) :
      \E h \in OptionMenu_choose(ftab, flash, cat_values[k]) :
        /\ ftab' = h.self
        /\ flash' = h.exercise
        /\ op' = "_change_category"
        /\ arg' = Some(cat_values[k])
        /\ ret' = None
        /\ raised' = h.raised
        /\ calls' = h.calls
        /\ UNCHANGED <<subject, stateVars, conjVars, tally, ctab, registryVars>>

\* The user presses Next.
FlashTabNext ==
  /\ subject = "flash_tab"
  /\ \E h \in FlashcardTab_next(ftab, flash) :
      /\ ftab' = h.self
      /\ flash' = h.exercise
      /\ op' = "_next"
      /\ arg' = None
      /\ ret' = None
      /\ raised' = h.raised
      /\ calls' = h.calls
      /\ UNCHANGED <<subject, stateVars, conjVars, tally, ctab, registryVars>>

\* The user presses Check.
FlashTabCheck ==
  /\ subject = "flash_tab"
  /\ flash.state.total_attempts < MaxTabAttempts
  /\ \E h \in FlashcardTab_check_answer(ftab, flash) :
      /\ ftab' = h.self
      /\ flash' = h.exercise
      /\ op' = "_check_answer"
      /\ arg' = Some(ftab.answer_var)
      /\ ret' = None
      /\ raised' = h.raised
      /\ calls' = h.calls
      /\ UNCHANGED <<subject, stateVars, conjVars, tally, ctab, registryVars>>

\* The user presses Reveal.
FlashTabReveal ==
  /\ subject = "flash_tab"
  /\ \E h \in FlashcardTab_reveal_answer(ftab, flash) :
      /\ ftab' = h.self
      /\ flash' = h.exercise
      /\ op' = "_reveal_answer"
      /\ arg' = None
      /\ ret' = None
      /\ raised' = h.raised
      /\ calls' = h.calls
      /\ UNCHANGED <<subject, stateVars, conjVars, tally, ctab, registryVars>>

\* The user edits the entry of the conjugation tab.
ConjTabType ==
  /\ subject = "conj_tab"
  /\ \E text \in TypedAnswers :
      /\ ctab' = [ctab EXCEPT !.answer_var = text]
      /\ op' = "type"
      /\ arg' = Some(text)
      /\ ret' = None
      /\ raised' = None
      /\ calls' = <<>>
      /\ UNCHANGED <<subject, stateVars, flashVars, conjVars, tally, ftab,
                     registryVars>>

\* The user presses New Verb.
ConjTabNext ==
  /\ subject = "conj_tab"
  /\ \E h \in ConjugationTab_next(ctab, conj) :
      /\ ctab' = h.self
      /\ conj' = h.exercise
      /\ op' = "_next"
      /\ arg' = None
      /\ ret' = None
      /\ raised' = h.raised
      /\ calls' = h.calls
      /\ UNCHANGED <<subject, stateVars, flashVars, prompt, run, mark, tally,
                     ftab, registryVars>>

\* The user presses Next Pronoun.
ConjTabCyclePronoun ==
  /\ subject = "conj_tab"
  /\ \E h \in ConjugationTab_cycle_pronoun(ctab, conj) :
      /\ ctab' = h.self
      /\ conj' = h.exercise
      /\ op' = "_cycle_pronoun"
      /\ arg' = None
      /\ ret' = None
      /\ raised' = h.raised
      /\ calls' = h.calls
      /\ UNCHANGED <<subject, stateVars, flashVars, prompt, run, mark, tally,
                     ftab, registryVars>>

\* The user presses Check.
ConjTabCheck ==
  /\ subject = "conj_tab"
  /\ conj.state.total_attempts < MaxTabAttempts
  /\ \E h \in ConjugationTab_check(ctab, conj) :
      /\ ctab' = h.self
      /\ conj' = h.exercise
      /\ op' = "_check"
      /\ arg' = Some(ctab.answer_var)
      /\ ret' = None
      /\ raised' = h.raised
      /\ calls' = h.calls
      /\ UNCHANGED <<subject, stateVars, flashVars, prompt, run, mark, tally,
                     ftab, registryVars>>

NextState == RegisterAttempt \/ Accuracy
NextFlashTab ==
  \/ FlashTabType
  \/ FlashTabChooseCategory
  \/ FlashTabNext
  \/ FlashTabCheck
  \/ FlashTabReveal
NextConjTab == ConjTabType \/ ConjTabNext \/ ConjTabCyclePronoun \/ ConjTabCheck
NextTabs == NextFlashTab \/ NextConjTab
NextRegistry == RegistryRegister \/ RegistryCreate \/ RegistryNames
NextInstances ==
  \/ RegistryCreate
  \/ InstanceNextPrompt
  \/ InstanceCyclePrompt
  \/ InstanceCheckAnswer
NextFlash == FlashSetCategory \/ FlashNextPrompt \/ FlashCheckAnswer
NextConj == ConjNextPrompt \/ ConjCyclePrompt \/ ConjCheckAnswer
Next == NextState \/ NextFlash \/ NextConj

\* Each object on its own, and all of them.
InitState == Init /\ subject = "state"
InitFlash == Init /\ subject = "flash"
InitConj == Init /\ subject = "conj"
SpecState == InitState /\ [][NextState]_vars
SpecFlash == InitFlash /\ [][NextFlash]_vars
SpecConj == InitConj /\ [][NextConj]_vars
Spec == Init /\ [][Next]_vars

\* The registry on its own, and a pair of the exercises it creates.
InitRegistry == Fresh /\ subject = "registry"
InitInstances == Fresh /\ subject = "instances"
SpecRegistry == InitRegistry /\ [][NextRegistry]_vars
SpecInstances == InitInstances /\ [][NextInstances]_vars

\* The two tabs of the window, each around its exercise.
InitTabs == Fresh /\ subject \in {"flash_tab", "conj_tab"}
SpecTabs == InitTabs /\ [][NextTabs]_vars

(***************************************************************************)
(* The claims                                                              *)
(***************************************************************************)
\* The length of the run of TRUE at the end of a sequence of outcomes.
TrailingTrue(seq) ==
  CHOOSE k \in 0..Len(seq) :
    /\ \A i \in (Len(seq) - k + 1)..Len(seq) : seq[i]
    /\ k < Len(seq) => ~seq[Len(seq) - k]

\* C1: after every register_attempt call on a fresh ExerciseState,
\* correct_attempts <= total_attempts, total_attempts is the number of calls
\* made, and current_streak is the length of the trailing run of correct
\* outcomes (0 after an incorrect one, and before any call).
C1_CountersFollowCalls ==
  /\ es.correct_attempts <= es.total_attempts
  /\ es.total_attempts = Len(outcomes)
  /\ es.current_streak = TrailingTrue(outcomes)

\* Two correct attempts after an incorrect one that itself followed a correct one.
C1_Witness ==
  /\ Len(outcomes) = 4
  /\ outcomes = <<TRUE, FALSE, TRUE, TRUE>>
  /\ es.current_streak = 2
  /\ es.correct_attempts = 3

\* Whether the fraction f is the value of c / t.
IsRatio(f, c, t) == f[2] > 0 /\ f[1] * t = c * f[2]

\* C2 as stated: accuracy returns 0 exactly when total_attempts = 0, and the
\* ratio correct_attempts / total_attempts, within [0, 1], otherwise.
C2_ZeroExactlyWhenNoAttempt ==
  op = "accuracy" =>
    /\ raised = None
    /\ (ret = Some(FloatZero)) <=> (es.total_attempts = 0)
    /\ es.total_attempts > 0 =>
         IsRatio(ret[1], es.correct_attempts, es.total_attempts)
    /\ 0 <= ret[1][1] /\ ret[1][1] <= ret[1][2]

\* C2 as amended: accuracy never fails; it returns 0 when total_attempts = 0,
\* and in general exactly when correct_attempts = 0; with attempts made it
\* returns the ratio correct_attempts / total_attempts; the result is in [0, 1].
C2_AccuracyIsRatio ==
  op = "accuracy" =>
    /\ raised = None
    /\ es.total_attempts = 0 => ret = Some(FloatZero)
    /\ (ret = Some(FloatZero)) <=> (es.correct_attempts = 0)
    /\ es.total_attempts > 0 =>
         IsRatio(ret[1], es.correct_attempts, es.total_attempts)
    /\ 0 <= ret[1][1] /\ ret[1][1] <= ret[1][2]

\* accuracy read as 0 after three attempts that were all incorrect.
C2_Witness ==
  /\ op = "accuracy"
  /\ es.total_attempts = 3
  /\ es.correct_attempts = 0
  /\ ret = Some(FloatZero)

\* SubSeq(s, i, j) is s without the whitespace at its two ends: only
\* whitespace comes before and after it, and none is at its own ends.
IsTrimOf(s, i, j) ==
  /\ j >= i - 1
  /\ \A k \in 1..(i - 1) : s[k] \in Whitespace
  /\ \A k \in (j + 1)..Len(s) : s[k] \in Whitespace
  /\ j >= i => s[i] \notin Whitespace /\ s[j] \notin Whitespace

\* a and b are the same text up to the case of their letters.
EqualIgnoringCase(a, b) ==
  /\ Len(a) = Len(b)
  /\ \A i \in 1..Len(a) :
       \/ a[i] = b[i]
       \/ \E k \in 1..Len(Uppercase) :
            {a[i], b[i]} = {Uppercase[k], Lowercase[k]}

\* The verdict the comparison policy gives answer s against the expected text.
PolicyVerdict(s, expected) ==
  \E i \in 1..(Len(s) + 1) : \E j \in 0..Len(s) :
    IsTrimOf(s, i, j) /\ EqualIgnoringCase(SubSeq(s, i, j), expected)

\* The same answer with whitespace put around it, and with its case changed:
\* all upper, all lower, and each single letter switched.
Pads == {<<>>, <<" ">>, <<"\t", "\n">>}
Padded(s) == {l \o s \o r : l \in Pads, r \in Pads}
upper_char(c) ==
  IF \E i \in 1..Len(Lowercase) : Lowercase[i] = c
  THEN Uppercase[CHOOSE i \in 1..Len(Lowercase) : Lowercase[i] = c]
  ELSE c
upper(s) == [i \in 1..Len(s) |-> upper_char(s[i])]
SwitchCase(c) == IF lower_char(c) = c THEN upper_char(c) ELSE lower_char(c)
Recased(s) ==
  {upper(s), lower(s)}
    \cup {[s EXCEPT ![i] = SwitchCase(s[i])] : i \in 1..Len(s)}

\* The target the exercise under test compares with, and its verdicts on s.
ExpectedAnswer ==
  IF subject = "flash" THEN flash.current_item[1].english
  ELSE answers(conj.current_pattern[1])[conj.current_index + 1]
Verdicts(s) ==
  IF subject = "flash"
  THEN {o.ret : o \in FlashcardExercise_check_answer(flash, s)}
  ELSE {o.ret : o \in ConjugationExercise_check_answer(conj, s)}

\* C3: in both exercises check_answer(s) returns true exactly when s, with
\* the whitespace at its ends removed, equals the expected answer up to case;
\* so whitespace around s and the case of its letters never change the verdict.
C3_TrimmedCaseInsensitive ==
  op = "check_answer" =>
    /\ raised = None
    /\ ret = Some(PolicyVerdict(arg[1], ExpectedAnswer))
    /\ \A s \in Padded(arg[1]) \cup Recased(arg[1]) : Verdicts(s) = {ret}

\* "  Hello  " judged correct against "hello".
C3_Witness ==
  /\ op = "check_answer"
  /\ subject = "flash"
  /\ arg = Some(<<" ", " ", "H", "e", "l", "l", "o", " ", " ">>)
  /\ flash.current_item[1].english = <<"h", "e", "l", "l", "o">>
  /\ ret = Some(TRUE)

\* The session state after one more attempt with the given verdict.
OneMoreAttempt(before, after, correct) ==
  /\ after.total_attempts = before.total_attempts + 1
  /\ after.correct_attempts = before.correct_attempts + (IF correct THEN 1 ELSE 0)
  /\ after.current_streak = (IF correct THEN before.current_streak + 1 ELSE 0)

\* C4: check_answer on a displayed item leaves current_item and the category
\* filter as they are, and on a displayed pattern leaves current_pattern and
\* current_index as they are, whatever the verdict; it registers exactly one
\* attempt and changes nothing else.
C4_CheckDoesNotAdvance ==
  [][ op' = "check_answer" =>
        /\ (subject = "flash" /\ flash.current_item # None) =>
             /\ flash'.current_item = flash.current_item
             /\ flash'.category = flash.category
             /\ OneMoreAttempt(flash.state, flash'.state, ret'[1])
             /\ Names(calls') = <<"register_attempt">>
        /\ (subject = "conj" /\ conj.current_pattern # None) =>
             /\ conj'.current_pattern = conj.current_pattern
             /\ conj'.current_index = conj.current_index
             /\ OneMoreAttempt(conj.state, conj'.state, ret'[1])
             /\ Names(calls') = <<"register_attempt">>
    ]_vars

\* A correct answer checked on an item that was already displayed.
C4_Witness ==
  /\ op = "check_answer"
  /\ subject = "flash"
  /\ Names(calls) = <<"register_attempt">>
  /\ ret = Some(TRUE)
  /\ flash.current_item # None
  /\ flash.state.total_attempts = 2

\* The items a draw under filter c may give: those of the category, or the
\* whole catalog when there is no filter or no item of that category.
UnderFilter(c) ==
  LET all == {VOCABULARY[i] : i \in 1..Len(VOCABULARY)}
      matching == {item \in all : Some(item.category) = c}
  IN IF c \in {None, Some(""), Some("all")} \/ matching = {} THEN all
     ELSE matching

\* C5: check_answer with no current item (pattern) first performs
\* next_prompt: afterwards an item drawn under the stored filter is displayed
\* (a pattern of the list, at slot 0), the verdict is the one against that
\* new target, exactly one attempt is registered and nothing is raised.
C5_CheckDrawsFirst ==
  [][ op' = "check_answer" =>
        /\ (subject = "flash" /\ flash.current_item = None) =>
             /\ raised' = None
             /\ Names(calls') = <<"next_prompt", "register_attempt">>
             /\ flash'.current_item = calls'[1].ret
             /\ flash'.current_item # None
             /\ flash'.current_item[1] \in UnderFilter(flash.category)
             /\ flash'.category = flash.category
             /\ ret' = Some(PolicyVerdict(arg'[1], flash'.current_item[1].english))
             /\ OneMoreAttempt(flash.state, flash'.state, ret'[1])
        /\ (subject = "conj" /\ conj.current_pattern = None) =>
             /\ raised' = None
             /\ Names(calls') = <<"next_prompt", "register_attempt">>
             /\ conj'.current_pattern # None
             /\ \E i \in 1..Len(PRESENT_TENSE) :
                  conj'.current_pattern[1] = PRESENT_TENSE[i]
             /\ conj'.current_index = 0
             /\ calls'[1].ret = Some(<<conj'.current_pattern[1].infinitive, "je">>)
             /\ ret' = Some(PolicyVerdict(arg'[1], conj'.current_pattern[1].je))
             /\ OneMoreAttempt(conj.state, conj'.state, ret'[1])
    ]_vars

\* A first check that drew its own item under the "greetings" filter and was
\* judged correct.
C5_Witness ==
  /\ op = "check_answer"
  /\ subject = "flash"
  /\ Names(calls) = <<"next_prompt", "register_attempt">>
  /\ flash.category = Some("greetings")
  /\ flash.current_item[1].french = "bonjour"
  /\ ret = Some(TRUE)
  /\ flash.state.total_attempts = 1

\* The items of the catalog, and the category labels that occur in it.
CatalogItems == {VOCABULARY[i] : i \in 1..Len(VOCABULARY)}
CatalogCategories == {item.category : item \in CatalogItems}

\* C6: with a filter c that occurs in the catalog, every possible result of
\* random_vocabulary_item(c) is a catalog item of category c, and after
\* next_prompt() under that filter the current item has category c.
C6_FilteredDrawKeepsCategory ==
  (flash.category # None /\ flash.category[1] \in CatalogCategories) =>
    /\ \A o \in random_vocabulary_item(flash.category) :
         /\ o.raised = None
         /\ o.ret[1] \in CatalogItems
         /\ o.ret[1].category = flash.category[1]
    /\ op = "next_prompt" =>
         /\ raised = None
         /\ flash.current_item = ret
         /\ ret[1] \in CatalogItems
         /\ ret[1].category = flash.category[1]

\* next_prompt() under the "animals" filter drew "chien".
C6_Witness ==
  /\ op = "next_prompt"
  /\ flash.category = Some("animals")
  /\ flash.current_item # None
  /\ flash.current_item[1].french = "chien"
  /\ flash.current_item[1].category = "animals"

\* C7: with a filter that matches no catalog item, with no filter and with
\* "all", random_vocabulary_item raises nothing and returns one item, and
\* every item of the whole catalog is a possible result.
C7_FallbackToWholeCatalog ==
  (flash.category = None \/ flash.category[1] \notin CatalogCategories) =>
    /\ \A o \in random_vocabulary_item(flash.category) :
         o.raised = None /\ Len(o.ret) = 1
    /\ {o.ret[1] : o \in random_vocabulary_item(flash.category)} = CatalogItems
    /\ op = "next_prompt" =>
         /\ raised = None
         /\ flash.current_item = ret
         /\ ret[1] \in CatalogItems

\* next_prompt() under a filter that matches nothing drew "cheval".
C7_Witness ==
  /\ op = "next_prompt"
  /\ flash.category = Some("nonexistent-category")
  /\ raised = None
  /\ flash.current_item # None
  /\ flash.current_item[1].french = "cheval"

\* The six pronoun labels in their fixed order, and the form of a pattern that
\* belongs to a label.
PronounLabels == <<"je", "tu", "il/elle", "nous", "vous", "ils/elles">>
FormFor(label, pattern) ==
  CASE label = "je" -> pattern.je
    [] label = "tu" -> pattern.tu
    [] label = "il/elle" -> pattern.il
    [] label = "nous" -> pattern.nous
    [] label = "vous" -> pattern.vous
    [] label = "ils/elles" -> pattern.ils

\* C8: on a displayed pattern each cycle_prompt() advances the slot by 1
\* modulo 6 and keeps the pattern, so after k consecutive calls the slot is
\* the starting slot plus k modulo 6, and six calls give back the starting
\* slot, with its pronoun returned and its form expected.
C8_CyclePeriodSix ==
  mark.pattern # None =>
    /\ conj.current_pattern = mark.pattern
    /\ conj.current_index = (mark.index + run) % 6
    /\ run > 0 =>
         /\ op = "cycle_prompt"
         /\ raised = None
         /\ ret = Some(<<mark.pattern[1].infinitive,
                         PronounLabels[((mark.index + run) % 6) + 1]>>)
    /\ run = 6 =>
         /\ conj.current_index = mark.index
         /\ ret = Some(<<mark.pattern[1].infinitive,
                         PronounLabels[mark.index + 1]>>)
         /\ answers(conj.current_pattern[1])[conj.current_index + 1]
              = FormFor(PronounLabels[mark.index + 1], mark.pattern[1])

\* Six cycle_prompt() calls from slot 0 of a displayed pattern.
C8_Witness ==
  /\ run = 6
  /\ mark.pattern # None
  /\ mark.index = 0
  /\ conj.current_index = 0
  /\ ret = Some(<<"parler", "je">>)

\* The sequences of characters "parle" and "parles".
Parle == <<"p", "a", "r", "l", "e">>
Parles == <<"p", "a", "r", "l", "e", "s">>

\* C9: next_prompt(), in any state, sets current_pattern to a pattern of the
\* list and current_index to 0 and returns (infinitive, "je"); a
\* check_answer right after it is judged against the pattern's je form: for
\* parler, "parle" is correct and "parles" is incorrect, and an incorrect
\* answer resets the streak to 0.
C9_NextPromptResetsToJe ==
  [][ /\ op' = "next_prompt" =>
           /\ raised' = None
           /\ conj'.current_pattern # None
           /\ \E i \in 1..Len(PRESENT_TENSE) :
                conj'.current_pattern[1] = PRESENT_TENSE[i]
           /\ conj'.current_index = 0
           /\ ret' = Some(<<conj'.current_pattern[1].infinitive, "je">>)
      /\ (op = "next_prompt" /\ op' = "check_answer") =>
           /\ ret' = Some(PolicyVerdict(arg'[1], conj.current_pattern[1].je))
           /\ ~ret'[1] => conj'.state.current_streak = 0
           /\ conj.current_pattern[1].infinitive = "parler" =>
                /\ arg' = Some(Parle) => ret' = Some(TRUE)
                /\ arg' = Some(Parles) =>
                     ret' = Some(FALSE) /\ conj'.state.current_streak = 0
    ]_vars

\* "parles" judged incorrect for parler at "je" after three correct answers.
C9_Witness ==
  /\ op = "check_answer"
  /\ conj.current_pattern # None
  /\ conj.current_pattern[1].infinitive = "parler"
  /\ conj.current_index = 0
  /\ arg = Some(Parles)
  /\ ret = Some(FALSE)
  /\ conj.state.total_attempts = 4
  /\ conj.state.correct_attempts = 3
  /\ conj.state.current_streak = 0

\* C10: current_index is always within 0..5; the pronoun returned by the
\* last next_prompt/cycle_prompt is the label at position current_index of
\* the fixed list, and check_answer compares with the form of the current
\* pattern that belongs to that label.
C10_SlotSelectsPronounAndForm ==
  /\ conj.current_index \in 0..5
  /\ conj.current_pattern # None =>
       /\ prompt = Some(<<conj.current_pattern[1].infinitive,
                          PronounLabels[conj.current_index + 1]>>)
       /\ op = "check_answer" =>
            ret = Some(PolicyVerdict(arg[1],
                         FormFor(prompt[1][2], conj.current_pattern[1])))

\* "ÊTES" judged correct for être at the slot of "vous".
C10_Witness ==
  /\ op = "check_answer"
  /\ conj.current_pattern # None
  /\ conj.current_pattern[1].infinitive = "être"
  /\ conj.current_index = 4
  /\ prompt = Some(<<"être", "vous">>)
  /\ arg = Some(<<"Ê", "T", "E", "S">>)
  /\ ret = Some(TRUE)

C16_FirstCycleIsNextPrompt ==
  (mark.pattern = None /\ run >= 1) =>
    /\ op = "cycle_prompt"
    /\ raised = None
    /\ conj.current_pattern # None
    /\ conj.current_index = (run - 1) % 6
    /\ ret = Some(<<conj.current_pattern[1].infinitive,
                    PronounLabels[((run - 1) % 6) + 1]>>)
    /\ run = 1 =>
         /\ Names(calls) = <<"next_prompt">>
         /\ conj.current_index = 0
         /\ ret[1][2] = "je"
         /\ \E o \in ConjugationExercise_next_prompt(ConjugationExercise) :
              o.self = conj /\ o.ret = ret

\* Seven cycle_prompt() calls on a new exercise: the slot is back at 0.
C16_Witness ==
  /\ subject = "conj"
  /\ mark.pattern = None
  /\ run = 7
  /\ conj.current_index = 0
  /\ ret = Some(<<"avoir", "je">>)

\* The session state of the exercise under test.
SessionState == IF subject = "flash" THEN flash.state ELSE conj.state

\* C17: next_prompt, cycle_prompt and setting the filter leave the counters
\* as they are, and each check_answer registers exactly one attempt; so
\* total_attempts is the number of check_answer calls made and
\* correct_attempts the number of those that returned true.
C17_CountersCountChecks ==
  [][ /\ op' \in {"next_prompt", "cycle_prompt", "set_category"} =>
           SessionState' = SessionState
      /\ op' = "check_answer" =>
           /\ OneMoreAttempt(SessionState, SessionState', ret'[1])
           /\ Len(SelectSeq(calls', LAMBDA c : c.name = "register_attempt")) = 1
      /\ SessionState'.total_attempts = tally'.checks
      /\ SessionState'.correct_attempts = tally'.correct
    ]_vars

\* A next_prompt() after three checks, one of them correct.
C17_Witness ==
  /\ subject = "conj"
  /\ op = "next_prompt"
  /\ tally = [checks |-> 3, correct |-> 1]
  /\ conj.state.total_attempts = 3
  /\ conj.state.correct_attempts = 1

\* C12: create(name) for a name that is not a key of the registry raises
\* KeyError, calls no factory and changes neither the mapping nor the
\* exercises made so far; for a name that is a key it raises nothing, and
\* calls that key's factory once.
C12_UnknownNameIsKeyError ==
  [][ op' = "create" =>
        LET name == arg'[1]
        IN IF creator_of(registry, name) = {}
           THEN /\ raised' = Some("KeyError")
                /\ ret' = None
                /\ calls' = <<>>
                /\ registry' = registry
                /\ heap' = heap
                /\ instances' = instances
           ELSE /\ raised' = None
                /\ registry' = registry
                /\ Len(calls') = 1
                /\ \E i \in creator_of(registry, name) :
                     calls'[1].name = registry._creators[i].value ]_vars

\* An unknown name is refused by a registry that has three names and has
\* already created an exercise.
C12_Witness ==
  /\ subject = "registry"
  /\ op = "create"
  /\ arg = Some("Unknown")
  /\ raised = Some("KeyError")
  /\ Len(registry._creators) = 3
  /\ Len(instances) = 1

\* C13: create returns a new exercise in its initial state (nothing displayed,
\* slot 0, counters 0/0/0) and leaves the exercises made before as they were;
\* an operation on one exercise leaves the other exercise's displayed
\* item/pattern, slot and counters as they were.
C13_InstancesAreIndependent ==
  [][ /\ (op' = "create" /\ raised' = None) =>
            /\ Len(instances') = Len(instances) + 1
            /\ ret' = Some(instances'[Len(instances')])
            /\ Deref(instances'[Len(instances')], heap') =
                 (IF instances'[Len(instances')].class = "FlashcardExercise"
                  THEN FlashcardExercise ELSE ConjugationExercise)
            /\ \A j \in 1..Len(instances) : View(j)' = View(j)
      /\ (op' # "create") =>
            /\ Len(instances') = Len(instances)
            /\ \A j \in 1..Len(instances) : j # target' => View(j)' = View(j)
    ]_vars

\* The second of two flashcard exercises displays an item while the first
\* one, created and answered before it, keeps its one correct attempt.
C13_Witness ==
  /\ subject = "instances"
  /\ Len(instances) = 2
  /\ IsFlash(1) /\ IsFlash(2)
  /\ op = "next_prompt"
  /\ target = 2
  /\ View(1).state = [total_attempts |-> 1, correct_attempts |-> 1, current_streak |-> 1]
  /\ View(2).state = ExerciseState
  /\ View(2).current_item # None
  /\ View(2).current_item # View(1).current_item

\* The exercise behind the tab in use, what the tab displays, and whether
\* the step that ends here was a press of Check.
TabExercise == IF subject = "flash_tab" THEN flash ELSE conj
TabFeedback == IF subject = "flash_tab" THEN ftab.feedback_var ELSE ctab.feedback_var
TabStats == IF subject = "flash_tab" THEN ftab.stats ELSE ctab.stats
Checked == op \in {"_check_answer", "_check"}
AskedToType ==
  IF subject = "flash_tab" THEN <<"Type your answer first.">>
  ELSE <<"Enter a conjugation first.">>

\* C14: in either tab, Check with an entry that is empty or holds only
\* whitespace displays the request to type something, makes no call on the
\* exercise and leaves the exercise (counters, displayed item/pattern) as it
\* was.
C14_BlankAnswerIsNotChecked ==
  [][ (Checked' /\ strip(arg'[1]) = <<>>) =>
        /\ TabFeedback' = AskedToType'
        /\ calls' = <<>>
        /\ TabExercise' = TabExercise ]_vars

\* C15: in the flashcard tab the prompt shows the French word of the
\* exercise's current item whenever there is one, and in the conjugation tab
\* the two labels show the infinitive of the current pattern and the pronoun
\* at current_index whenever there is a pattern.
C15_ScreenShowsCurrent ==
  /\ (subject = "flash_tab" /\ flash.current_item # None) =>
        ftab.prompt_var = <<"Translate: ", flash.current_item[1].french>>
  /\ (subject = "conj_tab" /\ conj.current_pattern # None) =>
        /\ ctab.verb_var = <<"Verb: ", conj.current_pattern[1].infinitive>>
        /\ ctab.pronoun_var = <<"Pronoun: ", PronounLabels[conj.current_index + 1]>>

\* C18: in either tab the bar shows the streak of the exercise's state and,
\* as a percentage, the integer nearest to 100 * correct / total (0 when
\* nothing was attempted).
C18_StatsBarMatchesState ==
  subject \in {"flash_tab", "conj_tab"} =>
    LET state == TabExercise.state
    IN /\ TabStats.streak_var = <<"Streak: ", state.current_streak>>
       /\ \E p \in 0..100 :
            /\ TabStats.accuracy_var = <<"Accuracy: ", p, "%">>
            /\ state.total_attempts = 0 => p = 0
            /\ 2 * (100 * state.correct_attempts - p * state.total_attempts)
                  <= state.total_attempts
            /\ 2 * (p * state.total_attempts - 100 * state.correct_attempts)
                  <= state.total_attempts

\* The bar of the flashcard tab shows 50% and a streak of 1 after a wrong and
\* then a right answer.
C18_Witness ==
  /\ subject = "flash_tab"
  /\ op = "_check_answer"
  /\ flash.state = [total_attempts |-> 2, correct_attempts |-> 1, current_streak |-> 1]
  /\ ftab.stats.accuracy_var = <<"Accuracy: ", 50, "%">>
  /\ ftab.stats.streak_var = <<"Streak: ", 1>>

\* C19: when a press of Check with a non-empty entry has been handled, the
\* feedback is the success message if check_answer returned True, and the
\* failure message with the expected answer if it returned False.
C19_FeedbackStatesVerdict ==
  [][ (Checked' /\ Len(arg'[1]) > 0 /\ raised' = None) =>
        IF calls'[1].ret = Some(TRUE)
        THEN TabFeedback' = (IF subject = "flash_tab"
                             THEN <<"Correct! ", "U+1F389">>
                             ELSE <<"Great job! ", "U+2705">>)
        ELSE TabFeedback' =
               (IF subject = "flash_tab"
                THEN <<"Not quite. Answer: ", flash'.current_item[1].english>>
                ELSE <<"Try again. Answer: ",
                       FormFor(PronounLabels[conj'.current_index + 1],
                               conj'.current_pattern[1])>>)
    ]_vars

\* The filter a category value stands for.
EffectiveFilter(category) ==
  IF category \in {None, Some(""), Some("all")} THEN "all" ELSE category[1]

\* C20: in the flashcard tab the category selected in the menu is the
\* exercise's effective filter, and while it is a category of the catalog
\* the displayed item, if any, belongs to it.
C20_SelectedCategoryIsFilter ==
  subject = "flash_tab" =>
    /\ ftab.category_var = EffectiveFilter(flash.category)
    /\ (ftab.category_var # "all" /\ flash.current_item # None) =>
          flash.current_item[1].category = ftab.category_var

\* Under the greetings filter a right answer to "bonjour" has been checked
\* and another greetings item is displayed.
C20_Witness ==
  /\ subject = "flash_tab"
  /\ ftab.category_var = "greetings"
  /\ op = "_check_answer"
  /\ Len(calls) = 2
  /\ calls[1].ret = Some(TRUE)
  /\ flash.current_item # None
  /\ flash.current_item[1].french # "bonjour"
  /\ flash.current_item[1].category = "greetings"

====
